---- MODULE Spec2Model ----
(***************************************************************************)
(* Model of PyDeque (vm/src/stdlib/collections.rs): a VecDeque of object   *)
(* handles behind a RefCell, with an optional maxlen.                      *)
(*                                                                         *)
(* Object handles are the numbers 1..4.  Option<T> and OptionalArg<T> are  *)
(* modelled as sets: {} is None / Missing, {x} is Some(x) / Present(x).    *)
(* A VecDeque is a sequence, position 1 being the front.                   *)
(***************************************************************************)
EXTENDS Integers, Sequences, FiniteSets, TLC

\* deque, maxlen: the fields of the PyDeque the calls are made on (zelf).
\* last: the call most recently made.  guards: the identities the VM's repr
\* guard holds.  other: a second PyDeque made by copy() (None before).
VARIABLES deque, maxlen, last, guards, other

vars == <<deque, maxlen, last, guards, other>>

(* ------------------------------ bounds -------------------------------- *)

\* longest element sequence explored (source of new, and growth of the deque)
MaxLen == 3
\* largest maxlen explored
MaxBound == 3
\* longest iterable handed to extend / extendleft
MaxXs == 2
\* insert is explored for idx in -MaxIdx..MaxIdx, i32::MIN and i32::MAX
MaxIdx == 4
\* rotate is explored for mid in -MaxRot..MaxRot and isize::MIN
MaxRot == 4
\* index is explored for start, stop in 0..MaxStart
MaxStart == 4
\* longest element sequence where a deque is explored with a second one (its
\* copy, the other operand of a comparison) or with hooks that call back
MaxShort == 2

(* --------------------------- the host objects -------------------------- *)

Handles == 1..4

\* <<>> and all sequences of handles of length <= n
SeqsUpTo(n) == UNION {[1..k -> Handles] : k \in 0..n}

\* Handles 1 and 2 are distinct objects of equal value (as 1 and 1.0), handle 3
\* has another value, handle 4 is an object whose __eq__ and __repr__ raise.
HookRaises(h) == h = 4

EqClass(h) == IF h = 2 THEN 1 ELSE h

\* objbool::boolval(vm, vm._eq(elem, obj)?)? : "True", "False" or "Err"
HostEq(elem, obj) ==
    IF HookRaises(elem) \/ HookRaises(obj) THEN "Err"
    ELSE IF EqClass(elem) = EqClass(obj) THEN "True" ELSE "False"

\* vm.to_repr(obj) : Ok or Err
HostReprOk(obj) == ~HookRaises(obj)

\* the host's ordering of two elements: "True" (a < b), "False" or "Err"
HostLt(a, b) ==
    IF HookRaises(a) \/ HookRaises(b) THEN "Err"
    ELSE IF EqClass(a) < EqClass(b) THEN "True" ELSE "False"

(* ------------------------- Option / OptionalArg ------------------------ *)

Some(x) == {x}

None == {}

unwrap_or(opt, dflt) == IF opt = {} THEN dflt ELSE CHOOSE x \in opt : TRUE

Opt(S) == {None} \cup {Some(x) : x \in S}

(* ------------------------ integer widths of args ----------------------- *)

\* idx: i32
I32_MIN == -2147483647 - 1

I32_MAX == 2147483647

\* mid: isize; its width is that of the target (32 bits on wasm32, 64 bits on
\* x86_64).  The 32-bit width is used: the model checker's integers are 32 bits.
ISIZE_MIN == -2147483647 - 1

(* ------------------------------ VecDeque ------------------------------- *)

\* VecDeque::pop_front: (Option<T>, the rest)
pop_front(d) ==
    IF d = <<>> THEN [val |-> None, rest |-> d]
    ELSE [val |-> Some(Head(d)), rest |-> Tail(d)]

\* VecDeque::pop_back
pop_back(d) ==
    IF d = <<>> THEN [val |-> None, rest |-> d]
    ELSE [val |-> Some(d[Len(d)]), rest |-> SubSeq(d, 1, Len(d) - 1)]

push_back(d, x) == d \o <<x>>

push_front(d, x) == <<x>> \o d

\* VecDeque::insert(index, value), index <= len (0-based)
vec_insert(d, index, x) ==
    SubSeq(d, 1, index) \o <<x>> \o SubSeq(d, index + 1, Len(d))

\* VecDeque::remove(index), index < len (0-based)
vec_remove(d, index) ==
    SubSeq(d, 1, index) \o SubSeq(d, index + 2, Len(d))

(* --------------------------- the last call ----------------------------- *)

\* The call most recently made on the deque: its name and arguments, the
\* element sequence before it (pre), how it ended (res) and what it returned.
\* a, b are the optional / integer arguments, xs the items the iterable
\* yielded (fails: it then raised).
Call(op, pre, obj, a, b, xs, res, ret) ==
    [op |-> op, pre |-> pre, obj |-> obj, a |-> a, b |-> b, xs |-> xs.items,
     fails |-> xs.fails, res |-> res, ret |-> ret]

NoIter == [items |-> <<>>, fails |-> FALSE]

NoCall == Call("none", <<>>, 0, None, None, NoIter, "Ok", None)

\* What a method hands back: how it ended, the value returned, the new sequence
Ret(res, ret, d) == [res |-> res, ret |-> ret, deque |-> d]

Idle == last.op = "none"

(* ------------------------------ PyDeque -------------------------------- *)

\* new that keeps only the last maxlen elements of the source
new_truncates_to_maxlen(iter, ml) ==
    [deque |-> IF ml # None /\ Len(iter) > unwrap_or(ml, 0)
               THEN SubSeq(iter, Len(iter) - unwrap_or(ml, 0) + 1, Len(iter))
               ELSE iter,
     maxlen |-> ml]

\* PyDeque::new: the whole iterable is collected, maxlen is only stored
new(iter, ml) == [deque |-> iter, maxlen |-> ml]

\* PyDeque::append
append(d, ml, obj) ==
    LET d1 == IF ml # None /\ Len(d) = unwrap_or(ml, 0)
              THEN pop_front(d).rest ELSE d
    IN  push_back(d1, obj)

\* PyDeque::appendleft
appendleft(d, ml, obj) ==
    LET d1 == IF ml # None /\ Len(d) = unwrap_or(ml, 0)
              THEN pop_back(d).rest ELSE d
    IN  push_front(d1, obj)

\* pop as it would be with the wrong end taken (pop_front for pop_back)
pop_from_front(d) ==
    LET p == pop_front(d)
    IN  IF p.val = None
        THEN Ret("EmptyContainer", None, p.rest)
        ELSE Ret("Ok", p.val, p.rest)

\* PyDeque::pop
pop(d) ==
    LET p == pop_back(d)
    IN  IF p.val = None
        THEN Ret("EmptyContainer", None, p.rest)
        ELSE Ret("Ok", p.val, p.rest)

\* PyDeque::popleft
popleft(d) ==
    LET p == pop_front(d)
    IN  IF p.val = None
        THEN Ret("EmptyContainer", None, p.rest)
        ELSE Ret("Ok", p.val, p.rest)

\* PyDeque::clear
clear(d) == <<>>

\* the loop of PyDeque::count from element i on (1-based), count matches so far
RECURSIVE count_loop(_, _, _, _)
count_loop(d, obj, i, count) ==
    IF i > Len(d) THEN Ret("Ok", Some(count), d)
    ELSE LET eq == HostEq(d[i], obj)
         IN  IF eq = "Err" THEN Ret("HookError", None, d)
             ELSE count_loop(d, obj, i + 1, IF eq = "True" THEN count + 1 ELSE count)

\* PyDeque::count
count(d, obj) == count_loop(d, obj, 1, 0)

\* An iterable: the items it yields, then whether it ends by raising.  An
\* iterable whose iter() raises is [items |-> <<>>, fails |-> TRUE].
Iterables(n) == [items : SeqsUpTo(n), fails : BOOLEAN]

\* the for loop of PyDeque::extend over the items still to come
RECURSIVE extend_loop(_, _, _)
extend_loop(d, ml, items) ==
    IF items = <<>> THEN d
    ELSE extend_loop(append(d, ml, Head(items)), ml, Tail(items))

\* PyDeque::extend
extend(d, ml, iter) ==
    Ret(IF iter.fails THEN "IterError" ELSE "Ok", None, extend_loop(d, ml, iter.items))

\* extendleft's loop as it would be calling append for appendleft
RECURSIVE extendleft_loop_appends(_, _, _)
extendleft_loop_appends(d, ml, items) ==
    IF items = <<>> THEN d
    ELSE extendleft_loop_appends(append(d, ml, Head(items)), ml, Tail(items))

\* the for loop of PyDeque::extendleft
RECURSIVE extendleft_loop(_, _, _)
extendleft_loop(d, ml, items) ==
    IF items = <<>> THEN d
    ELSE extendleft_loop(appendleft(d, ml, Head(items)), ml, Tail(items))

\* PyDeque::extendleft
extendleft(d, ml, iter) ==
    Ret(IF iter.fails THEN "IterError" ELSE "Ok", None,
        extendleft_loop(d, ml, iter.items))

\* Iterator::skip(n)
skip(d, n) == SubSeq(d, n + 1, Len(d))

\* Iterator::take(n)
take(d, n) == SubSeq(d, 1, IF n < Len(d) THEN n ELSE Len(d))

\* the for loop of PyDeque::index over the window w; i is enumerate()'s
\* counter for w[1]
RECURSIVE index_loop(_, _, _)
index_loop(w, obj, i) ==
    IF w = <<>> THEN [res |-> "NotFound", ret |-> None]
    ELSE LET eq == HostEq(Head(w), obj)
         IN  IF eq = "Err" THEN [res |-> "HookError", ret |-> None]
             ELSE IF eq = "True" THEN [res |-> "Ok", ret |-> Some(i)]
             ELSE index_loop(Tail(w), obj, i + 1)

\* the message of index's ValueError: a failure of repr(obj) is replaced by ""
index_message(obj) == IF HostReprOk(obj) THEN "repr is not in deque" ELSE ""

\* index as it would be with enumerate() applied before skip(): the position
\* counted from the head, not from start
index_from_head(d, obj, start, stop, overflow_checks) ==
    LET s == unwrap_or(start, 0)
        e == unwrap_or(stop, Len(d))
    IN  IF s > e /\ overflow_checks THEN Ret("Panic", None, d)
        ELSE LET w == IF s > e THEN skip(d, s) ELSE take(skip(d, s), e - s)
                 r == index_loop(w, obj, s)
             IN  IF r.res = "NotFound"
                 THEN Ret("ValueNotFound", Some(index_message(obj)), d)
                 ELSE Ret(r.res, r.ret, d)

\* PyDeque::index.  `stop - start` is a usize subtraction: with start > stop
\* it panics when overflow checks are on and wraps to a number above every
\* length when they are off, so that take() lets every element through.
index(d, obj, start, stop, overflow_checks) ==
    LET s == unwrap_or(start, 0)
        e == unwrap_or(stop, Len(d))
    IN  IF s > e /\ overflow_checks THEN Ret("Panic", None, d)
        ELSE LET w == IF s > e THEN skip(d, s) ELSE take(skip(d, s), e - s)
                 r == index_loop(w, obj, 0)
             IN  IF r.res = "NotFound"
                 THEN Ret("ValueNotFound", Some(index_message(obj)), d)
                 ELSE Ret(r.res, r.ret, d)

\* insert_position as it would be with an idx past the end clamped to len
\* instead of len - 1
insert_position_clamps_to_len(len, idx, overflow_checks) ==
    IF idx < 0
    THEN IF idx = I32_MIN
         THEN IF overflow_checks THEN [kind |-> "panic", pos |-> 0]
              ELSE [kind |-> "pos", pos |-> 0]
         ELSE IF -idx > len THEN [kind |-> "pos", pos |-> 0]
              ELSE [kind |-> "pos", pos |-> len - (-idx)]
    ELSE IF idx >= len THEN [kind |-> "pos", pos |-> len]
         ELSE [kind |-> "pos", pos |-> idx]

\* The position insert computes from idx (lines 138-148): a position, or
\* "usize_max" when `deque.len() - 1` wraps below 0, or "panic" when the
\* build checks overflow and `-idx` or `deque.len() - 1` overflows.  With
\* overflow checks off `-idx` of i32::MIN is i32::MIN, and `as usize` sign
\* extends it to a number above every length.
insert_position(len, idx, overflow_checks) ==
    IF idx < 0
    THEN IF idx = I32_MIN
         THEN IF overflow_checks THEN [kind |-> "panic", pos |-> 0]
              ELSE [kind |-> "pos", pos |-> 0]
         ELSE IF -idx > len THEN [kind |-> "pos", pos |-> 0]
              ELSE [kind |-> "pos", pos |-> len - (-idx)]
    ELSE IF idx >= len
         THEN IF len = 0
              THEN IF overflow_checks THEN [kind |-> "panic", pos |-> 0]
                   ELSE [kind |-> "usize_max", pos |-> 0]
              ELSE [kind |-> "pos", pos |-> len - 1]
         ELSE [kind |-> "pos", pos |-> idx]

\* PyDeque::insert.  VecDeque::insert panics unless index <= len.
insert(d, ml, idx, obj, overflow_checks) ==
    IF ml # None /\ Len(d) = unwrap_or(ml, 0)
    THEN Ret("ContainerFull", None, d)
    ELSE LET p == insert_position(Len(d), idx, overflow_checks)
         IN  IF p.kind = "pos" /\ p.pos <= Len(d)
             THEN Ret("Ok", None, vec_insert(d, p.pos, obj))
             ELSE Ret("Panic", None, d)

\* remove_loop as it would be without the break: the last match wins
RECURSIVE remove_loop_without_break(_, _, _)
remove_loop_without_break(d, obj, i) ==
    IF i > Len(d) THEN [res |-> "Ok", idx |-> None]
    ELSE LET eq == HostEq(d[i], obj)
             later == remove_loop_without_break(d, obj, i + 1)
         IN  IF eq = "Err" THEN [res |-> "HookError", idx |-> None]
             ELSE IF later.res = "HookError" \/ later.idx # None THEN later
             ELSE IF eq = "True" THEN [res |-> "Ok", idx |-> Some(i - 1)]
             ELSE later

\* the for loop of PyDeque::remove from element i on (1-based): Some(0-based
\* index of the first match), None, or the hook's failure
RECURSIVE remove_loop(_, _, _)
remove_loop(d, obj, i) ==
    IF i > Len(d) THEN [res |-> "Ok", idx |-> None]
    ELSE LET eq == HostEq(d[i], obj)
         IN  IF eq = "Err" THEN [res |-> "HookError", idx |-> None]
             ELSE IF eq = "True" THEN [res |-> "Ok", idx |-> Some(i - 1)]
             ELSE remove_loop(d, obj, i + 1)

\* PyDeque::remove
remove(d, obj) ==
    LET r == remove_loop(d, obj, 1)
    IN  IF r.res = "HookError" THEN Ret("HookError", None, d)
        ELSE IF r.idx = None THEN Ret("ValueNotFound", None, d)
        ELSE LET idx == unwrap_or(r.idx, 0)
             IN  Ret("Ok", Some(d[idx + 1]), vec_remove(d, idx))

\* PyDeque::reverse
reverse(d) == [i \in 1..Len(d) |-> d[Len(d) - i + 1]]

\* for _ in 0..n { if let Some(x) = deque.pop_back() { deque.push_front(x) } }
RECURSIVE rotate_back_to_front(_, _)
rotate_back_to_front(d, n) ==
    IF n <= 0 THEN d
    ELSE LET p == pop_back(d)
         IN  rotate_back_to_front(
                 IF p.val = None THEN p.rest
                 ELSE push_front(p.rest, unwrap_or(p.val, 0)), n - 1)

\* the loop for mid < 0 as it would be with the body of the other branch
rotate_front_to_back_as_other_branch(d, n) == rotate_back_to_front(d, n)

\* for _ in 0..n { if let Some(x) = deque.pop_front() { deque.push_back(x) } }
RECURSIVE rotate_front_to_back(_, _)
rotate_front_to_back(d, n) ==
    IF n <= 0 THEN d
    ELSE LET p == pop_front(d)
         IN  rotate_front_to_back(
                 IF p.val = None THEN p.rest
                 ELSE push_back(p.rest, unwrap_or(p.val, 0)), n - 1)

\* PyDeque::rotate.  `-mid` of isize::MIN panics when overflow checks are on
\* and is isize::MIN when they are off: the range 0..isize::MIN is empty.
rotate(d, mid, overflow_checks) ==
    LET m == unwrap_or(mid, 1)
    IN  IF m < 0
        THEN IF m = ISIZE_MIN
             THEN IF overflow_checks THEN Ret("Panic", None, d)
                  ELSE Ret("Ok", None, d)
             ELSE Ret("Ok", None, rotate_front_to_back(d, -m))
        ELSE Ret("Ok", None, rotate_back_to_front(d, m))

\* copy as it would be if the clone shared the element storage (as the clone
\* of a reference-counted cell does)
copy_shares_storage(d, ml) == [shares |-> TRUE, deque |-> d, maxlen |-> ml]

\* PyDeque::copy: self.clone() of #[derive(Clone)].  The clone of the RefCell
\* is a new RefCell around a clone of the VecDeque: a new buffer holding the
\* same handles (shares: whether the two deques use one buffer).
copy(d, ml) == [shares |-> FALSE, deque |-> d, maxlen |-> ml]

\* the second PyDeque, its element sequence and its maxlen
Other == unwrap_or(other, [shares |-> FALSE, deque |-> <<>>, maxlen |-> None])

OtherSeq == IF Other.shares THEN deque ELSE Other.deque

OtherMaxlen == Other.maxlen

\* A call of one of the mutating methods: its name and arguments
Mutation(op, obj, n, iter, overflow_checks) ==
    [op |-> op, obj |-> obj, n |-> n, iter |-> iter,
     overflow_checks |-> overflow_checks]

\* the mutating method m.op called with m's arguments on a deque (d, ml)
mutate(d, ml, m) ==
    CASE m.op = "append" -> Ret("Ok", None, append(d, ml, m.obj))
      [] m.op = "appendleft" -> Ret("Ok", None, appendleft(d, ml, m.obj))
      [] m.op = "clear" -> Ret("Ok", None, clear(d))
      [] m.op = "extend" -> extend(d, ml, m.iter)
      [] m.op = "extendleft" -> extendleft(d, ml, m.iter)
      [] m.op = "insert" -> insert(d, ml, m.n, m.obj, m.overflow_checks)
      [] m.op = "pop" -> pop(d)
      [] m.op = "popleft" -> popleft(d)
      [] m.op = "remove" -> remove(d, m.obj)
      [] m.op = "reverse" -> Ret("Ok", None, reverse(d))
      [] m.op = "rotate" -> rotate(d, Some(m.n), m.overflow_checks)

(* ----------------------------- comparisons ----------------------------- *)

\* The other operand of a comparison: zelf itself ("same"), another PyDeque
\* holding seq ("deque"), or an object that is no PyDeque ("object")
Operand(kind, seq) == [kind |-> kind, seq |-> seq]

Operands(d, n) ==
    {Operand("same", d), Operand("object", <<>>)}
    \cup {Operand("deque", rhs) : rhs \in SeqsUpTo(n)}

\* What a comparison hands back: how it ended, the value (of vm.new_bool, or
\* "NotImplemented"), and the number of host hooks it called
CmpRet(res, ret, hooks) == [res |-> res, ret |-> ret, hooks |-> hooks]

\* objsequence: the lexicographic walk from position i on.  Corresponding
\* elements are compared by the host's equality; the first unequal pair
\* decides by the host's ordering; when one sequence ends first the shorter is
\* the lesser.  ord is "lt", "eq" or "gt".
RECURSIVE seq_cmp(_, _, _, _)
seq_cmp(lhs, rhs, i, hooks) ==
    IF i > Len(lhs) \/ i > Len(rhs)
    THEN [res |-> "Ok", hooks |-> hooks,
          ord |-> IF Len(lhs) < Len(rhs) THEN "lt"
                  ELSE IF Len(lhs) > Len(rhs) THEN "gt" ELSE "eq"]
    ELSE LET e == HostEq(lhs[i], rhs[i])
             l == HostLt(lhs[i], rhs[i])
         IN  IF e = "Err" THEN [res |-> "HookError", hooks |-> hooks + 1, ord |-> "eq"]
             ELSE IF e = "True" THEN seq_cmp(lhs, rhs, i + 1, hooks + 1)
             ELSE IF l = "Err"
             THEN [res |-> "HookError", hooks |-> hooks + 2, ord |-> "eq"]
             ELSE [res |-> "Ok", hooks |-> hooks + 2,
                   ord |-> IF l = "True" THEN "lt" ELSE "gt"]

\* a comparison's value from the walk's outcome: ords are the outcomes for
\* which it is true
seq_result(lhs, rhs, ords) ==
    LET c == seq_cmp(lhs, rhs, 1, 0)
    IN  IF c.res = "HookError" THEN CmpRet("HookError", None, c.hooks)
        ELSE CmpRet("Ok", Some(IF c.ord \in ords THEN "True" ELSE "False"), c.hooks)

\* objsequence::seq_equal
seq_equal(lhs, rhs) == seq_result(lhs, rhs, {"eq"})

\* objsequence::seq_lt
seq_lt(lhs, rhs) == seq_result(lhs, rhs, {"lt"})

\* objsequence::seq_gt
seq_gt(lhs, rhs) == seq_result(lhs, rhs, {"gt"})

\* objsequence::seq_le
seq_le(lhs, rhs) == seq_result(lhs, rhs, {"lt", "eq"})

\* objsequence::seq_ge
seq_ge(lhs, rhs) == seq_result(lhs, rhs, {"gt", "eq"})

\* eq that compares the elements of whatever operand it is given
eq_without_class_match(d, oth) ==
    IF oth.kind = "same" THEN CmpRet("Ok", Some("True"), 0)
    ELSE seq_equal(d, oth.seq)

\* PyDeque::eq
eq(d, oth) ==
    IF oth.kind = "same" THEN CmpRet("Ok", Some("True"), 0)
    ELSE IF oth.kind # "deque" THEN CmpRet("Ok", Some("NotImplemented"), 0)
    ELSE seq_equal(d, oth.seq)

\* lt that delegates to the ordering of the opposite direction
lt_delegates_to_seq_gt(d, oth) ==
    IF oth.kind = "same" THEN CmpRet("Ok", Some("True"), 0)
    ELSE IF oth.kind # "deque" THEN CmpRet("Ok", Some("NotImplemented"), 0)
    ELSE seq_gt(d, oth.seq)

\* PyDeque::lt
lt(d, oth) ==
    IF oth.kind = "same" THEN CmpRet("Ok", Some("True"), 0)
    ELSE IF oth.kind # "deque" THEN CmpRet("Ok", Some("NotImplemented"), 0)
    ELSE seq_lt(d, oth.seq)

\* PyDeque::gt
gt(d, oth) ==
    IF oth.kind = "same" THEN CmpRet("Ok", Some("True"), 0)
    ELSE IF oth.kind # "deque" THEN CmpRet("Ok", Some("NotImplemented"), 0)
    ELSE seq_gt(d, oth.seq)

\* PyDeque::le
le(d, oth) ==
    IF oth.kind = "same" THEN CmpRet("Ok", Some("True"), 0)
    ELSE IF oth.kind # "deque" THEN CmpRet("Ok", Some("NotImplemented"), 0)
    ELSE seq_le(d, oth.seq)

\* PyDeque::ge
ge(d, oth) ==
    IF oth.kind = "same" THEN CmpRet("Ok", Some("True"), 0)
    ELSE IF oth.kind # "deque" THEN CmpRet("Ok", Some("NotImplemented"), 0)
    ELSE seq_ge(d, oth.seq)

(* -------------------------------- repr --------------------------------- *)

\* zelf.as_object(): the identity of the deque, the key of its repr guard
Zelf == 0

\* the handle whose __repr__ may render the deque that holds it
CycleHandle == 3

\* ReprGuard::enter: None when the identity is already being rendered, else
\* the guard set with the identity added
ReprGuard_enter(g, id) == IF id \in g THEN None ELSE Some(g \cup {id})

\* Drop of the ReprGuard: the identity leaves the guard set
ReprGuard_drop(g, id) == g \ {id}

\* the elements' strings joined by ", " (itertools format)
RECURSIVE format_join(_)
format_join(strs) ==
    IF Len(strs) = 0 THEN <<>>
    ELSE IF Len(strs) = 1 THEN strs[1]
    ELSE strs[1] \o <<", ">> \o format_join(Tail(strs))

\* the maxlen part of the string
format_maxlen(ml) ==
    IF ml = None THEN <<>> ELSE <<", maxlen=", ToString(CHOOSE m \in ml : TRUE)>>

RECURSIVE repr(_, _, _, _)

\* vm.to_repr(obj): the host's repr hook.  It raises for an object whose hooks
\* raise; the __repr__ of CycleHandle calls repr of the deque when reenters
\* holds (the object is a container holding the deque).
to_repr(obj, d, ml, g, reenters) ==
    IF HookRaises(obj) THEN [res |-> "HookError", str |-> <<>>, guards |-> g]
    ELSE IF obj = CycleHandle /\ reenters
    THEN LET inner == repr(d, ml, g, reenters)
         IN  IF inner.res # "Ok"
             THEN [res |-> inner.res, str |-> <<>>, guards |-> inner.guards]
             ELSE [res |-> "Ok", guards |-> inner.guards,
                   str |-> <<"[">> \o (CHOOSE str \in inner.ret : TRUE) \o <<"]">>]
    ELSE [res |-> "Ok", str |-> <<ToString(obj)>>, guards |-> g]

\* .iter().map(|obj| vm.to_repr(obj)).collect::<Result<Vec<_>, _>>() from
\* element i on: the strings so far, or the first failure
RECURSIVE repr_elements(_, _, _, _, _, _)
repr_elements(d, ml, g, reenters, i, strs) ==
    IF i > Len(d) THEN [res |-> "Ok", strs |-> strs, guards |-> g]
    ELSE LET r == to_repr(d[i], d, ml, g, reenters)
         IN  IF r.res # "Ok" THEN [res |-> r.res, strs |-> strs, guards |-> r.guards]
             ELSE repr_elements(d, ml, r.guards, reenters, i + 1, Append(strs, r.str))

\* repr whose guard is released only when the string is produced
repr_leaks_guard_on_failure(d, ml, g, reenters) ==
    LET guard == ReprGuard_enter(g, Zelf)
    IN  IF guard # None
        THEN LET elements == repr_elements(d, ml, CHOOSE e \in guard : TRUE,
                                           reenters, 1, <<>>)
             IN  IF elements.res # "Ok"
                 THEN [res |-> elements.res, ret |-> None,
                       guards |-> elements.guards]
                 ELSE [res |-> "Ok",
                       ret |-> Some(<<"deque([">> \o format_join(elements.strs)
                                    \o <<"]">> \o format_maxlen(ml) \o <<")">>),
                       guards |-> ReprGuard_drop(elements.guards, Zelf)]
        ELSE [res |-> "Ok", ret |-> Some(<<"[...]">>), guards |-> g]

\* PyDeque::repr, called with the guard set g
repr(d, ml, g, reenters) ==
    LET guard == ReprGuard_enter(g, Zelf)
    IN  IF guard # None
        THEN LET elements == repr_elements(d, ml, CHOOSE e \in guard : TRUE,
                                           reenters, 1, <<>>)
             IN  IF elements.res # "Ok"
                 THEN [res |-> elements.res, ret |-> None,
                       guards |-> ReprGuard_drop(elements.guards, Zelf)]
                 ELSE [res |-> "Ok",
                       ret |-> Some(<<"deque([">> \o format_join(elements.strs)
                                    \o <<"]">> \o format_maxlen(ml) \o <<")">>),
                       guards |-> ReprGuard_drop(elements.guards, Zelf)]
        ELSE [res |-> "Ok", ret |-> Some(<<"[...]">>), guards |-> g]

(* ---------------- calls made by a hook while a method runs -------------- *)

\* the methods that call a host hook on the elements
HookOps == {"count", "index", "remove", "repr", "eq", "lt", "gt", "le", "ge"}

\* the methods that take self.deque.borrow()
BorrowOps == {"copy", "count", "index", "repr", "eq", "lt", "gt", "le", "ge"}

\* the methods that take self.deque.borrow_mut()
BorrowMutOps == {"append", "appendleft", "clear", "extend", "extendleft",
                 "insert", "pop", "popleft", "remove", "reverse", "rotate"}

\* the borrow of self.deque a method holds while its hook runs
borrow_held(op) == IF op \in BorrowMutOps THEN "exclusive" ELSE "shared"

\* RefCell::borrow while the cell is borrowed as held
RefCell_borrow(held) == IF held = "exclusive" THEN "Panic" ELSE "Ok"

\* RefCell::borrow_mut while the cell is borrowed as held
RefCell_borrow_mut(held) == IF held = "none" THEN "Ok" ELSE "Panic"

\* How the call of inner on the deque ends at its first access to self.deque,
\* made by a hook that outer called: "Ok" when the call goes on as usual.  g
\* is the guard set: repr takes no borrow when the identity is in it.
reentrant(outer, inner, g) ==
    IF inner = "repr" /\ ReprGuard_enter(g, Zelf) = None THEN "Ok"
    ELSE IF inner \in BorrowMutOps THEN RefCell_borrow_mut(borrow_held(outer))
    ELSE RefCell_borrow(borrow_held(outer))

(* ------------------------------ actions -------------------------------- *)

Init ==
    \E iter \in SeqsUpTo(MaxLen), ml \in Opt(0..MaxBound) :
        /\ deque = new(iter, ml).deque
        /\ maxlen = new(iter, ml).maxlen
        /\ last = Call("new", <<>>, 0, ml, None,
                       [items |-> iter, fails |-> FALSE], "Ok", None)
        /\ guards = {}
        /\ other = None

\* The call has returned to the host, which makes its next call.  A panic
\* ends the process: no call follows it.
host_return ==
    /\ ~Idle
    /\ last.res # "Panic"
    /\ last' = NoCall
    /\ UNCHANGED <<deque, maxlen, guards, other>>

call_append ==
    /\ Idle
    /\ \E obj \in Handles :
        /\ Len(append(deque, maxlen, obj)) <= MaxLen
        /\ deque' = append(deque, maxlen, obj)
        /\ last' = Call("append", deque, obj, None, None, NoIter, "Ok", None)
    /\ UNCHANGED <<maxlen, guards, other>>

call_appendleft ==
    /\ Idle
    /\ \E obj \in Handles :
        /\ Len(appendleft(deque, maxlen, obj)) <= MaxLen
        /\ deque' = appendleft(deque, maxlen, obj)
        /\ last' = Call("appendleft", deque, obj, None, None, NoIter, "Ok", None)
    /\ UNCHANGED <<maxlen, guards, other>>

call_pop ==
    /\ Idle
    /\ deque' = pop(deque).deque
    /\ last' = Call("pop", deque, 0, None, None, NoIter, pop(deque).res, pop(deque).ret)
    /\ UNCHANGED <<maxlen, guards, other>>

call_popleft ==
    /\ Idle
    /\ deque' = popleft(deque).deque
    /\ last' = Call("popleft", deque, 0, None, None, NoIter,
                    popleft(deque).res, popleft(deque).ret)
    /\ UNCHANGED <<maxlen, guards, other>>

call_clear ==
    /\ Idle
    /\ deque' = clear(deque)
    /\ last' = Call("clear", deque, 0, None, None, NoIter, "Ok", None)
    /\ UNCHANGED <<maxlen, guards, other>>

call_count ==
    /\ Idle
    /\ \E obj \in Handles :
        LET r == count(deque, obj)
        IN  /\ deque' = r.deque
            /\ last' = Call("count", deque, obj, None, None, NoIter, r.res, r.ret)
    /\ UNCHANGED <<maxlen, guards, other>>

call_extend ==
    /\ Idle
    /\ \E iter \in Iterables(MaxXs) :
        LET r == extend(deque, maxlen, iter)
        IN  /\ Len(r.deque) <= MaxLen
            /\ deque' = r.deque
            /\ last' = Call("extend", deque, 0, None, None, iter, r.res, r.ret)
    /\ UNCHANGED <<maxlen, guards, other>>

call_extendleft ==
    /\ Idle
    /\ \E iter \in Iterables(MaxXs) :
        LET r == extendleft(deque, maxlen, iter)
        IN  /\ Len(r.deque) <= MaxLen
            /\ deque' = r.deque
            /\ last' = Call("extendleft", deque, 0, None, None, iter,
                            r.res, r.ret)
    /\ UNCHANGED <<maxlen, guards, other>>

call_index ==
    /\ Idle
    /\ \E obj \in Handles, start \in Opt(0..MaxStart), stop \in Opt(0..MaxStart),
          overflow_checks \in BOOLEAN :
        LET r == index(deque, obj, start, stop, overflow_checks)
        IN  /\ deque' = r.deque
            /\ last' = Call("index", deque, obj, start, stop, NoIter, r.res, r.ret)
    /\ UNCHANGED <<maxlen, guards, other>>

call_insert ==
    /\ Idle
    /\ \E idx \in (-MaxIdx..MaxIdx) \cup {I32_MIN, I32_MAX}, obj \in Handles,
          overflow_checks \in BOOLEAN :
        LET r == insert(deque, maxlen, idx, obj, overflow_checks)
        IN  /\ Len(r.deque) <= MaxLen
            /\ deque' = r.deque
            /\ last' = Call("insert", deque, obj, Some(idx), None, NoIter, r.res, r.ret)
    /\ UNCHANGED <<maxlen, guards, other>>

call_remove ==
    /\ Idle
    /\ \E obj \in Handles :
        LET r == remove(deque, obj)
        IN  /\ deque' = r.deque
            /\ last' = Call("remove", deque, obj, None, None, NoIter, r.res, r.ret)
    /\ UNCHANGED <<maxlen, guards, other>>

call_reverse ==
    /\ Idle
    /\ deque' = reverse(deque)
    /\ last' = Call("reverse", deque, 0, None, None, NoIter, "Ok", None)
    /\ UNCHANGED <<maxlen, guards, other>>

call_rotate ==
    /\ Idle
    /\ \E mid \in Opt((-MaxRot..MaxRot) \cup {ISIZE_MIN}), overflow_checks \in BOOLEAN :
        LET r == rotate(deque, mid, overflow_checks)
        IN  /\ deque' = r.deque
            /\ last' = Call("rotate", deque, 0, mid, None, NoIter, r.res, r.ret)
    /\ UNCHANGED <<maxlen, guards, other>>

Next ==
    \/ host_return
    \/ call_append
    \/ call_appendleft
    \/ call_clear
    \/ call_count
    \/ call_extend
    \/ call_extendleft
    \/ call_index
    \/ call_insert
    \/ call_pop
    \/ call_popleft
    \/ call_remove
    \/ call_reverse
    \/ call_rotate

Spec == Init /\ [][Next]_vars


(* ------------------- a deque and its copy (SpecCopy) ------------------- *)

\* the handles and sequences explored where a deque and its copy are kept
CopyHandles == {1, 3, 4}

CopySeqs(n) == UNION {[1..k -> CopyHandles] : k \in 0..n}

\* the calls of mutating methods explored on a deque and on its copy
CopyMutations ==
    {Mutation(op, obj, 0, NoIter, FALSE) :
        op \in {"append", "appendleft", "remove"}, obj \in CopyHandles}
    \cup {Mutation(op, 0, 0, NoIter, FALSE) :
        op \in {"clear", "pop", "popleft", "reverse"}}
    \cup {Mutation(op, 0, 0, iter, FALSE) :
        op \in {"extend", "extendleft"},
        iter \in [items : CopySeqs(1), fails : BOOLEAN]}
    \cup {Mutation("insert", obj, n, NoIter, FALSE) :
        obj \in CopyHandles, n \in {-1, 0, 1}}
    \cup {Mutation("rotate", 0, n, NoIter, FALSE) : n \in {-1, 1}}

InitCopy ==
    \E iter \in CopySeqs(MaxShort), ml \in Opt(0..MaxBound) :
        /\ deque = new(iter, ml).deque
        /\ maxlen = new(iter, ml).maxlen
        /\ last = Call("new", <<>>, 0, ml, None,
                       [items |-> iter, fails |-> FALSE], "Ok", None)
        /\ guards = {}
        /\ other = None

call_copy ==
    /\ Idle
    /\ other = None
    /\ other' = Some(copy(deque, maxlen))
    /\ last' = Call("copy", deque, 0, None, None, NoIter, "Ok", None)
    /\ UNCHANGED <<deque, maxlen, guards>>

\* a mutating method called on the deque itself
call_on_self ==
    /\ Idle
    /\ \E m \in CopyMutations :
        LET r == mutate(deque, maxlen, m)
        IN  /\ Len(r.deque) <= MaxShort
            /\ deque' = r.deque
            /\ last' = Call("on_self", deque, m.obj, Some(m.op), Some(m.n),
                            m.iter, r.res, r.ret)
    /\ UNCHANGED <<maxlen, guards, other>>

\* a mutating method called on the copy
call_on_other ==
    /\ Idle
    /\ other # None
    /\ \E m \in CopyMutations :
        LET r == mutate(OtherSeq, OtherMaxlen, m)
        IN  /\ Len(r.deque) <= MaxShort
            /\ IF Other.shares
               THEN deque' = r.deque /\ other' = other
               ELSE deque' = deque /\ other' = Some([Other EXCEPT !.deque = r.deque])
            /\ last' = Call("on_other", OtherSeq, m.obj, Some(m.op), Some(m.n),
                            m.iter, r.res, r.ret)
    /\ UNCHANGED <<maxlen, guards>>

NextCopy ==
    \/ host_return
    \/ call_copy
    \/ call_on_self
    \/ call_on_other

SpecCopy == InitCopy /\ [][NextCopy]_vars

(* ------------- the methods that call host hooks (SpecHooks) ------------- *)

InitHooks ==
    \E iter \in SeqsUpTo(MaxShort), ml \in Opt(0..MaxBound) :
        /\ deque = new(iter, ml).deque
        /\ maxlen = new(iter, ml).maxlen
        /\ last = Call("new", <<>>, 0, ml, None,
                       [items |-> iter, fails |-> FALSE], "Ok", None)
        /\ guards = {}
        /\ other = None

\* The call of a comparison: a is the kind of the other operand, xs its
\* elements, b the number of hooks called
CmpCall(op, oth, r) ==
    Call(op, deque, 0, Some(oth.kind), Some(r.hooks),
         [items |-> oth.seq, fails |-> FALSE], r.res, r.ret)

call_eq ==
    /\ Idle
    /\ \E oth \in Operands(deque, MaxShort) : last' = CmpCall("eq", oth, eq(deque, oth))
    /\ UNCHANGED <<deque, maxlen, guards, other>>

call_lt ==
    /\ Idle
    /\ \E oth \in Operands(deque, MaxShort) : last' = CmpCall("lt", oth, lt(deque, oth))
    /\ UNCHANGED <<deque, maxlen, guards, other>>

call_gt ==
    /\ Idle
    /\ \E oth \in Operands(deque, MaxShort) : last' = CmpCall("gt", oth, gt(deque, oth))
    /\ UNCHANGED <<deque, maxlen, guards, other>>

call_le ==
    /\ Idle
    /\ \E oth \in Operands(deque, MaxShort) : last' = CmpCall("le", oth, le(deque, oth))
    /\ UNCHANGED <<deque, maxlen, guards, other>>

call_ge ==
    /\ Idle
    /\ \E oth \in Operands(deque, MaxShort) : last' = CmpCall("ge", oth, ge(deque, oth))
    /\ UNCHANGED <<deque, maxlen, guards, other>>

\* repr(d); reenters tells whether the __repr__ of CycleHandle renders d
call_repr ==
    /\ Idle
    /\ \E reenters \in BOOLEAN :
        LET r == repr(deque, maxlen, guards, reenters)
        IN  /\ guards' = r.guards
            /\ last' = Call("repr", deque, 0, Some(reenters), None, NoIter,
                            r.res, r.ret)
    /\ UNCHANGED <<deque, maxlen, other>>

\* outer runs on a deque with an element, and the hook it calls on that
\* element calls inner on the same deque: a is outer, b is inner, res how the
\* inner call ends.  An inner call that needs borrow_mut never gets it, so
\* the elements stay as they are.
call_reentrant ==
    /\ Idle
    /\ Len(deque) > 0
    /\ \E outer \in HookOps, inner \in BorrowOps \cup BorrowMutOps :
        LET g == IF outer = "repr"
                 THEN unwrap_or(ReprGuard_enter(guards, Zelf), guards)
                 ELSE guards
        IN  last' = Call("reentrant", deque, 0, Some(outer), Some(inner), NoIter,
                         reentrant(outer, inner, g), None)
    /\ UNCHANGED <<deque, maxlen, guards, other>>

NextHooks ==
    \/ host_return
    \/ call_reentrant
    \/ call_pop
    \/ call_popleft
    \/ call_repr
    \/ call_count
    \/ call_index
    \/ call_remove
    \/ call_eq
    \/ call_lt
    \/ call_gt
    \/ call_le
    \/ call_ge

SpecHooks == InitHooks /\ [][NextHooks]_vars

(* ------------------------------- claims -------------------------------- *)

\* the bound of a bounded deque
Bound == unwrap_or(maxlen, 0)

\* post is pre with x put at 0-based position pos, the rest in order
PlacedAt(pre, post, pos, x) ==
    /\ Len(post) = Len(pre) + 1
    /\ pos \in 0..Len(pre)
    /\ post[pos + 1] = x
    /\ \A i \in 1..Len(pre) : post[IF i <= pos THEN i ELSE i + 1] = pre[i]

\* post is pre without the element at 1-based position p, the rest in order
RemovedAt(pre, post, p) ==
    /\ Len(post) = Len(pre) - 1
    /\ p \in 1..Len(pre)
    /\ \A i \in 1..Len(post) : post[i] = pre[IF i < p THEN i ELSE i + 1]

\* the least element of a non-empty set of numbers
Least(S) == CHOOSE i \in S : \A j \in S : i <= j

\* C1: a deque that has a bound b holds at most b elements after every
\* mutating operation (construction included) that returned successfully.
C1_LengthWithinBound ==
    (maxlen # None /\ last.res = "Ok") => Len(deque) <= Bound

\* C2: at capacity append drops exactly the head and puts the value at the
\* tail, appendleft drops exactly the tail and puts the value at the head, and
\* the length stays; below capacity or unbounded nothing is dropped and the
\* length grows by one.
C2_PushEvictsOppositeEnd ==
    LET pre == last.pre
        atCapacity == maxlen # None /\ Len(pre) = Bound
    IN  /\ last.op = "append" =>
            IF atCapacity
            THEN /\ Len(deque) = Len(pre)
                 /\ deque = SubSeq(pre, 2, Len(pre)) \o <<last.obj>>
            ELSE deque = pre \o <<last.obj>>
        /\ last.op = "appendleft" =>
            IF atCapacity
            THEN /\ Len(deque) = Len(pre)
                 /\ deque = <<last.obj>> \o SubSeq(pre, 1, Len(pre) - 1)
            ELSE deque = <<last.obj>> \o pre

\* C3: pop returns and removes the tail element, popleft the head element, the
\* rest keeping its order; on an empty deque, and only there, they fail with
\* EmptyContainer and leave the deque empty and the bound as it was.
C3_PopStep ==
    LET L == Len(deque)
    IN  /\ last'.op = "pop" =>
            /\ maxlen' = maxlen
            /\ IF L = 0
               THEN last'.res = "EmptyContainer" /\ deque' = <<>>
               ELSE /\ last'.res = "Ok"
                    /\ last'.ret = {deque[L]}
                    /\ Len(deque') = L - 1
                    /\ \A i \in 1..(L - 1) : deque'[i] = deque[i]
        /\ last'.op = "popleft" =>
            /\ maxlen' = maxlen
            /\ IF L = 0
               THEN last'.res = "EmptyContainer" /\ deque' = <<>>
               ELSE /\ last'.res = "Ok"
                    /\ last'.ret = {deque[1]}
                    /\ Len(deque') = L - 1
                    /\ \A i \in 1..(L - 1) : deque'[i] = deque[i + 1]

C3_PopEnds == [][C3_PopStep]_vars

C3_Witness ==
    /\ last.op = "popleft"
    /\ last.res = "Ok"
    /\ Len(last.pre) = 3
    /\ last.pre[1] # last.pre[3]
    /\ maxlen = {3}

\* C4: insert fails with ContainerFull exactly when the deque is bounded and
\* at its bound, leaving the sequence as it was; in every other state, for
\* every idx, it succeeds and the new sequence is the old one with the value
\* put at one position, the rest in order.
C4_InsertFailsOnlyWhenFull ==
    last.op = "insert" =>
        IF maxlen # None /\ Len(last.pre) = Bound
        THEN last.res = "ContainerFull" /\ deque = last.pre
        ELSE /\ last.res = "Ok"
             /\ \E pos \in 0..Len(last.pre) :
                    PlacedAt(last.pre, deque, pos, last.obj)

C6_RemoveFirstMatch ==
    last.op = "remove" =>
        LET pre == last.pre
            M == {i \in 1..Len(pre) : HostEq(pre[i], last.obj) = "True"}
            E == {i \in 1..Len(pre) : HostEq(pre[i], last.obj) = "Err"}
        IN  IF E # {} /\ (M = {} \/ Least(E) < Least(M))
            THEN last.res = "HookError" /\ deque = pre
            ELSE IF M = {}
            THEN last.res = "ValueNotFound" /\ deque = pre
            ELSE /\ last.res = "Ok"
                 /\ last.ret = {pre[Least(M)]}
                 /\ RemovedAt(pre, deque, Least(M))

C6_Witness ==
    /\ last.op = "remove"
    /\ last.pre = <<3, 1, 2>>
    /\ last.obj = 2
    /\ last.res = "Ok"
    /\ deque = <<3, 2>>

\* C7: for start <= stop, index(v, start, stop) looks only at the positions p
\* with start <= p < min(stop, length), in increasing order, and returns
\* p - start for the first one whose element is host-equal to v; without one
\* it fails with ValueNotFound; the sequence is never changed.  (When the
\* equality hook raises before a match is found, the call ends with that
\* failure.)
C7_IndexWindow ==
    LET pre == last.pre
        s == unwrap_or(last.a, 0)
        e == unwrap_or(last.b, Len(pre))
        hi == IF e < Len(pre) THEN e ELSE Len(pre)
        W == {p \in 0..(Len(pre) - 1) : s <= p /\ p < hi}
        M == {p \in W : HostEq(pre[p + 1], last.obj) = "True"}
        E == {p \in W : HostEq(pre[p + 1], last.obj) = "Err"}
    IN  (last.op = "index" /\ s <= e) =>
            /\ deque = pre
            /\ IF E # {} /\ (M = {} \/ Least(E) < Least(M))
               THEN last.res = "HookError"
               ELSE IF M = {}
               THEN last.res = "ValueNotFound"
               ELSE last.res = "Ok" /\ last.ret = {Least(M) - s}

C7_Witness ==
    /\ last.op = "index"
    /\ last.pre = <<1, 3, 2>>
    /\ last.obj = 1
    /\ last.a = {1}
    /\ last.b = {3}
    /\ last.res = "Ok"
    /\ last.ret = {1}

\* the state reached from d by one append call per element of xs, in order
RECURSIVE C8_AppendEach(_, _, _)
C8_AppendEach(d, ml, xs) ==
    IF xs = <<>> THEN d
    ELSE append(C8_AppendEach(d, ml, SubSeq(xs, 1, Len(xs) - 1)), ml, xs[Len(xs)])

\* the state reached from d by one appendleft call per element of xs, in order
RECURSIVE C8_AppendleftEach(_, _, _)
C8_AppendleftEach(d, ml, xs) ==
    IF xs = <<>> THEN d
    ELSE appendleft(C8_AppendleftEach(d, ml, SubSeq(xs, 1, Len(xs) - 1)), ml,
                    xs[Len(xs)])

\* the last n elements of d (all of d when it has fewer)
C8_LastN(d, n) == SubSeq(d, IF Len(d) > n THEN Len(d) - n + 1 ELSE 1, Len(d))

\* C8: extend leaves the deque as one append per yielded element does, in
\* order, extendleft as one appendleft per yielded element does (the elements
\* end up reversed at the head), each push evicting on its own; when the
\* iterable raises after k elements the call returns that failure and the k
\* elements stay pushed.
C8_ExtendIsRepeatedPush ==
    LET pre == last.pre
        xs == last.xs
        rev == [i \in 1..Len(xs) |-> xs[Len(xs) - i + 1]]
    IN  /\ last.op = "extend" =>
            /\ deque = C8_AppendEach(pre, maxlen, xs)
            /\ last.res = IF last.fails THEN "IterError" ELSE "Ok"
            /\ maxlen = None => deque = pre \o xs
            /\ (maxlen # None /\ Bound >= 1 /\ Len(pre) <= Bound)
                   => deque = C8_LastN(pre \o xs, Bound)
        /\ last.op = "extendleft" =>
            /\ deque = C8_AppendleftEach(pre, maxlen, xs)
            /\ last.res = IF last.fails THEN "IterError" ELSE "Ok"
            /\ maxlen = None => deque = rev \o pre
            /\ (maxlen # None /\ Bound >= 1 /\ Len(pre) <= Bound)
                   => deque = SubSeq(rev \o pre, 1,
                                     IF Len(rev \o pre) > Bound THEN Bound
                                     ELSE Len(rev \o pre))

C8_Witness ==
    /\ last.op = "extendleft"
    /\ last.fails
    /\ last.res = "IterError"
    /\ last.xs = <<1, 3>>
    /\ last.pre = <<2, 4>>
    /\ maxlen = {2}
    /\ deque = <<3, 1>>

\* C9: rotate(n) followed by rotate(-n) leaves the sequence as it was, for
\* every n whose negation is an argument of rotate and every length.
C9_RotateThenBack ==
    (last.op = "rotate" /\ last.res = "Ok" /\ last.a # {ISIZE_MIN}) =>
        \A overflow_checks \in BOOLEAN :
            LET back == rotate(deque, {-unwrap_or(last.a, 1)}, overflow_checks)
            IN  back.res = "Ok" /\ back.deque = last.pre

C9_Witness ==
    /\ last.op = "rotate"
    /\ last.a = {-4}
    /\ last.pre = <<1, 3, 4>>
    /\ deque = <<3, 4, 1>>

\* C10: rotate(n) shifts the sequence cyclically to the right by n (n > 0: the
\* last n elements go to the front, n < 0: the first |n| go to the back), the
\* same as rotate(n mod L) for length L >= 1; on an empty deque it does
\* nothing and does not fail; the length and the elements stay, also at the
\* bound.
C10_RotateIsCyclicShift ==
    last.op = "rotate" =>
        LET pre == last.pre
            L == Len(pre)
            n == unwrap_or(last.a, 1)
        IN  /\ last.res = "Ok"
            /\ Len(deque) = L
            /\ \A i \in 1..L : deque[(((i - 1) + n) % L) + 1] = pre[i]

\* C11: copy() hands back a new deque with the same elements in the same order
\* and the same bound; right after the copy the two compare equal unless an
\* element's comparison hook raises; afterwards a mutating call on either one
\* leaves the elements and the bound of the other as they were.
C11_CopyStep ==
    /\ last'.op = "copy" =>
        /\ other' # None
        /\ OtherSeq' = deque /\ OtherMaxlen' = maxlen
        /\ deque' = deque /\ maxlen' = maxlen
        /\ LET r == eq(deque', Operand("deque", OtherSeq'))
           IN  IF \E k \in 1..Len(deque) : HookRaises(deque[k])
               THEN r.res = "HookError"
               ELSE r.res = "Ok" /\ r.ret = Some("True")
    /\ last'.op = "on_other" =>
        /\ deque' = deque /\ maxlen' = maxlen
        /\ OtherMaxlen' = OtherMaxlen
    /\ last'.op = "on_self" =>
        /\ OtherSeq' = OtherSeq /\ OtherMaxlen' = OtherMaxlen
        /\ maxlen' = maxlen

C11_CopyIsIndependent == [][C11_CopyStep]_vars

\* a call on the copy changed the copy, and one on the original changed the
\* original after a copy was taken
C11_Witness ==
    /\ other # None
    /\ last.op \in {"on_other", "on_self"}
    /\ last.res = "Ok"
    /\ Len(deque) > 0 /\ Len(OtherSeq) > 0
    /\ OtherSeq # deque
    /\ IF last.op = "on_other" THEN last.pre # OtherSeq ELSE last.pre # deque

\* the comparison methods
CmpOps == {"eq", "lt", "gt", "le", "ge"}

\* the first position at which the elements of a and b are not equal by the
\* host's equality (0 when there is none in the common prefix)
C12_FirstDiff(a, b) ==
    LET n == IF Len(a) < Len(b) THEN Len(a) ELSE Len(b)
        D == {k \in 1..n : HostEq(a[k], b[k]) # "True"}
    IN  IF D = {} THEN 0 ELSE Least(D)

\* the lexicographic order of a and b: "lt", "eq", "gt", or "raise" when the
\* deciding element comparison raises
C12_Order(a, b) ==
    LET k == C12_FirstDiff(a, b)
    IN  IF k = 0
        THEN IF Len(a) < Len(b) THEN "lt" ELSE IF Len(a) > Len(b) THEN "gt" ELSE "eq"
        ELSE IF HookRaises(a[k]) \/ HookRaises(b[k]) THEN "raise"
        ELSE IF EqClass(a[k]) < EqClass(b[k]) THEN "lt" ELSE "gt"

\* the orders for which each comparison is true
C12_TrueFor(op) ==
    CASE op = "eq" -> {"eq"}
      [] op = "lt" -> {"lt"}
      [] op = "gt" -> {"gt"}
      [] op = "le" -> {"lt", "eq"}
      [] op = "ge" -> {"gt", "eq"}

\* C12: for two distinct deques, ==, <, <=, >, >= compare the element
\* sequences lexicographically with the host's element comparisons: the first
\* unequal pair decides, a proper prefix is the lesser, and the bounds play no
\* part; the deque is left as it was.
C12_Lexicographic ==
    (last.op \in CmpOps /\ last.a = Some("deque")) =>
        LET o == C12_Order(last.pre, last.xs)
        IN  /\ deque = last.pre
            /\ IF o = "raise"
               THEN last.res = "HookError"
               ELSE /\ last.res = "Ok"
                    /\ last.ret = Some(IF o \in C12_TrueFor(last.op)
                                       THEN "True" ELSE "False")

\* the longer deque is the lesser one: its first unequal element decides
C12_Witness ==
    /\ last.op = "lt" /\ last.a = Some("deque")
    /\ Len(last.pre) > Len(last.xs)
    /\ C12_FirstDiff(last.pre, last.xs) > 0
    /\ last.ret = Some("True")

\* C14: a comparison of a deque with an operand that is not a deque returns
\* the host's "not implemented" sentinel: it does not fail, calls no element
\* hook, and leaves the deque as it was.
C14_NotImplementedForOtherTypes ==
    (last.op \in CmpOps /\ last.a = Some("object")) =>
        /\ last.res = "Ok"
        /\ last.ret = Some("NotImplemented")
        /\ last.b = Some(0)
        /\ deque = last.pre

\* == of a deque holding an element whose hooks raise with a non-deque
C14_Witness ==
    /\ last.op = "eq" /\ last.a = Some("object")
    /\ \E k \in 1..Len(last.pre) : HookRaises(last.pre[k])
    /\ last.ret = Some("NotImplemented")

\* the method called by last, applied to the operands of last
C18_Result(op) ==
    LET oth == Operand(CHOOSE k \in last.a : TRUE, last.xs)
    IN  CASE op = "eq" -> eq(last.pre, oth)
          [] op = "lt" -> lt(last.pre, oth)
          [] op = "gt" -> gt(last.pre, oth)
          [] op = "le" -> le(last.pre, oth)
          [] op = "ge" -> ge(last.pre, oth)

C18_True(op) == C18_Result(op).ret = Some("True")

\* C18: the five comparisons of the same two operands agree with each other,
\* also when both operands are one deque: < and == are never both true, nor
\* > and ==; <= holds exactly when < or == does, >= exactly when > or == does;
\* for one and the same deque ==, <= and >= are true.
C18_ComparisonsConsistent ==
    (last.op \in CmpOps /\ last.a # Some("object")
        /\ \A op \in CmpOps : C18_Result(op).res = "Ok") =>
        /\ last.ret = C18_Result(last.op).ret
        /\ ~(C18_True("lt") /\ C18_True("eq"))
        /\ ~(C18_True("gt") /\ C18_True("eq"))
        /\ C18_True("le") <=> (C18_True("lt") \/ C18_True("eq"))
        /\ C18_True("ge") <=> (C18_True("gt") \/ C18_True("eq"))
        /\ last.a = Some("same") =>
            C18_True("eq") /\ C18_True("le") /\ C18_True("ge")

\* the string of a deque holding d with bound ml, where inner is the string
\* the __repr__ of CycleHandle gets for the deque that holds it
C13_Rendering(d, ml, reenters, inner) ==
    LET str(h) == IF h = CycleHandle /\ reenters
                  THEN <<"[">> \o inner \o <<"]">> ELSE <<ToString(h)>>
        strs == [k \in 1..Len(d) |-> str(d[k])]
    IN  <<"deque([">> \o format_join(strs) \o <<"]">> \o format_maxlen(ml) \o <<")">>

\* C13: when rendering a deque re-enters repr of the same deque, the inner
\* call gives the fixed placeholder without rendering an element, so the
\* outer call ends; once the outermost repr has returned, with a string or
\* with the failure of an element's repr hook, the identity of the deque is
\* not in the guard set, so every later repr renders the elements again.
C13_ReprGuard ==
    /\ Zelf \notin guards
    /\ last.op = "repr" =>
        /\ deque = last.pre
        /\ IF \E k \in 1..Len(deque) : HookRaises(deque[k])
           THEN last.res = "HookError"
           ELSE /\ last.res = "Ok"
                /\ last.ret = Some(C13_Rendering(deque, maxlen, last.a = Some(TRUE),
                                                 <<"[...]">>))

\* the rendering of a deque that holds an element rendering the deque
C13_Witness ==
    /\ last.op = "repr" /\ last.a = Some(TRUE) /\ last.res = "Ok"
    /\ \E k \in 1..Len(deque) : deque[k] = CycleHandle
    /\ maxlen # None

\* C15: construction from a source and a bound succeeds and leaves the deque
\* holding every element of the source in source order, also when the source
\* is longer than the bound; the bound is stored as given.
C15_ConstructionKeepsEveryElement ==
    last.op = "new" =>
        /\ last.res = "Ok"
        /\ deque = last.xs
        /\ maxlen = last.a

\* a deque constructed from a source longer than its bound
C15_Witness ==
    /\ last.op = "new"
    /\ maxlen # None
    /\ Len(last.xs) > Bound
    /\ Bound > 0

\* C19: on a deque of length L that is not full, insert(i, x) with
\* 0 <= i <= L succeeds and puts x at position i, the other elements keeping
\* their order: insert(L, x) makes x the last element and insert(0, x) on the
\* empty deque gives [x].
C19_InsertWithinLength ==
    LET L == Len(last.pre)
        idx == unwrap_or(last.a, 0)
    IN  (last.op = "insert" /\ ~(maxlen # None /\ L = Bound)
            /\ 0 <= idx /\ idx <= L) =>
            /\ last.res = "Ok"
            /\ PlacedAt(last.pre, deque, idx, last.obj)

\* C20: index(v, start, stop) with an empty window (start > stop, or start at
\* or past the length) fails with ValueNotFound, whatever v and the deque
\* are, and leaves the deque as it was.
C20_EmptyWindowNotFound ==
    LET s == unwrap_or(last.a, 0)
        e == unwrap_or(last.b, Len(last.pre))
    IN  (last.op = "index" /\ (s > e \/ s >= Len(last.pre))) =>
            /\ last.res = "ValueNotFound"
            /\ deque = last.pre

\* a hook called by the operation of last raised: the equality hook on an
\* element reached by count, remove or index, the repr hook index calls on the
\* value it did not find, the deciding element comparison of a comparison, the
\* repr hook of an element rendered by repr
C17_HookFailed ==
    LET pre == last.pre
        Errs(W) == {p \in W : HostEq(pre[p], last.obj) = "Err"}
        Hits(W) == {p \in W : HostEq(pre[p], last.obj) = "True"}
        FailsFirst(W) ==
            Errs(W) # {} /\ (Hits(W) = {} \/ Least(Errs(W)) < Least(Hits(W)))
        s == unwrap_or(last.a, 0)
        e == unwrap_or(last.b, Len(pre))
        W == {p \in 1..Len(pre) : s < p /\ p <= e}
    IN  CASE last.op = "count" -> Errs(1..Len(pre)) # {}
          [] last.op = "remove" -> FailsFirst(1..Len(pre))
          [] last.op = "index" ->
                s <= e /\ (FailsFirst(W) \/ (Hits(W) = {} /\ ~HostReprOk(last.obj)))
          [] last.op \in CmpOps ->
                last.a = Some("deque") /\ C12_Order(pre, last.xs) = "raise"
          [] last.op = "repr" -> \E k \in 1..Len(pre) : HookRaises(pre[k])
          [] OTHER -> FALSE

\* C17: when a host hook called by count, index, remove, a comparison or repr
\* raises, the operation ends with that failure: it is not swallowed, replaced
\* by another error or turned into a result.  This holds too for the repr hook
\* index calls on the value when no element matches.
C17_HookFailuresPropagate ==
    C17_HookFailed => last.res = "HookError"

\* C16: a call of a public operation on the deque made from inside a hook
\* that count, index, remove, a comparison or repr is running is handled: it
\* never ends with an access conflict or an abort.
C16_ReentrantCallsHandled ==
    last.op = "reentrant" => last.res # "Panic"

=============================================================================
